---- MODULE Spec2Model ----
(***************************************************************************)
(* Model of novel-formatter's EPUB merge engine (package epub):            *)
(*   MergeEPUBs / loadVolume / buildPackage / writeZip  (merge.go, kept in *)
(*   src/internal/epub/merge_test.go), unzip, parseNavDocument (nav.go).   *)
(*                                                                         *)
(* Strings are sequences of one-character strings, so that trimming,       *)
(* prefix tests, formatting and byte-wise sorting are computed, not        *)
(* assumed.  "" is <<>>.                                                   *)
(***************************************************************************)
EXTENDS Integers, Sequences, FiniteSets, TLC

VARIABLES
    \* ---- MergeEPUBs / buildPackage ------------------------------------
    sources,      \* the input archives, in input order
    opts,         \* MergeOptions
    ctxDone,      \* ctx has been cancelled
    pc,           \* position inside the running function
    i,            \* loop index of the current loop of MergeEPUBs
    volumes,      \* []*Volume (Nil where not loaded yet)
    dirs,         \* temporary directories that exist on disk
    manifest,     \* merged Manifest.Items
    spine,        \* merged Spine.Itemrefs
    idHref,       \* map merged id -> merged href
    coverItemID,  \* merged cover id, "" when none chosen yet
    stage,        \* files written to the staging directory, in creation order
    pkg,          \* the PackageDocument built by buildPackage (Nil before)
    outFile,      \* what is at opts.OutPath
    err,          \* error returned ("" = nil)
    \* ---- unzip --------------------------------------------------------
    uzDst,        \* destination directory (absolute, as segments)
    uzArchive,    \* r.File: the entry names of the archive
    uzPos,        \* index of the next entry
    uzWritten,    \* absolute paths created by unzip
    uzErr,        \* "running", or what unzip returned ("" = nil)
    \* ---- parseNavDocument ---------------------------------------------
    stk,          \* xml.Decoder's stack of open elements
    budget,       \* how many more tokens of each kind the document may hold
    items,        \* top-level []NavItem
    listStack,    \* []*[]NavItem: 0 = &items, k = &heap[k].item.Children
    liStack,      \* []*navItemState, as heap addresses
    heap,         \* the navItemState objects allocated so far
    inTOC,
    navDepth,
    navRet,       \* "run", or how parseNavDocument returned:
                  \* "ok" (items, nil) | "notfound" | "syntax" (decoder error)
    doc,          \* the tokens read so far, in order
    \* ---- a call of a function without state ----------------------------
    callArgs,     \* the arguments
    callRet       \* what it returned ("" before the return)

mergeVars == <<sources, opts, ctxDone, pc, i, volumes, dirs, manifest, spine,
               idHref, coverItemID, stage, pkg, outFile, err>>
unzipVars == <<uzDst, uzArchive, uzPos, uzWritten, uzErr>>
navVars   == <<stk, budget, items, listStack, liStack, heap, inTOC, navDepth,
               navRet, doc>>
callVars  == <<callArgs, callRet>>
vars      == <<mergeVars, unzipVars, navVars, callVars>>

Nil == [nil |-> TRUE]

(***************************************************************************)
(* Strings                                                                 *)
(***************************************************************************)
\* The characters used, in ascending byte order (what sort.Strings and the
\* string comparisons of Go compare).
Alphabet ==
    <<"\t", " ", "#", "-", ".", "/", "0", "1", "2", "3", "4", "5", "6",
      "7", "8", "9", ":", "A", "B", "C", "D", "E", "F", "G", "H", "I", "J",
      "K", "L", "M", "N", "O", "P", "Q", "R", "S", "T", "U", "V", "W", "X",
      "Y", "Z", "\\", "_", "a", "b", "c", "d", "e", "f", "g", "h", "i",
      "j", "k", "l", "m", "n", "o", "p", "q", "r", "s", "t", "u", "v", "w",
      "x", "y", "z">>

OrdOf == [c \in {Alphabet[k] : k \in 1..Len(Alphabet)} |->
            CHOOSE k \in 1..Len(Alphabet) : Alphabet[k] = c]
Ord(c) == OrdOf[c]

\* s < t, byte-wise lexicographic
RECURSIVE StrLess(_, _)
StrLess(s, t) ==
    IF t = <<>> THEN FALSE
    ELSE IF s = <<>> THEN TRUE
    ELSE IF Head(s) = Head(t) THEN StrLess(Tail(s), Tail(t))
    ELSE Ord(Head(s)) < Ord(Head(t))

IsSpace(c) == c \in {" ", "\t"}

RECURSIVE TrimLeft(_)
TrimLeft(s) ==
    IF s # <<>> /\ IsSpace(Head(s)) THEN TrimLeft(Tail(s)) ELSE s

RECURSIVE TrimRight(_)
TrimRight(s) ==
    IF s # <<>> /\ IsSpace(s[Len(s)]) THEN TrimRight(SubSeq(s, 1, Len(s) - 1))
    ELSE s

TrimSpace(s) == TrimRight(TrimLeft(s))

HasPrefix(s, p) == Len(p) <= Len(s) /\ SubSeq(s, 1, Len(p)) = p

\* strings.Fields: the maximal runs of non-space characters
RECURSIVE FieldsAcc(_, _, _)
FieldsAcc(s, cur, acc) ==
    IF s = <<>> THEN (IF cur = <<>> THEN acc ELSE Append(acc, cur))
    ELSE IF IsSpace(Head(s))
         THEN FieldsAcc(Tail(s), <<>>, IF cur = <<>> THEN acc ELSE Append(acc, cur))
         ELSE FieldsAcc(Tail(s), Append(cur, Head(s)), acc)

Fields(s) == FieldsAcc(s, <<>>, <<>>)

\* strings.Join
RECURSIVE JoinStr(_, _)
JoinStr(parts, sep) ==
    IF parts = <<>> THEN <<>>
    ELSE IF Len(parts) = 1 THEN parts[1]
    ELSE parts[1] \o sep \o JoinStr(Tail(parts), sep)

Digit(d) == Alphabet[Ord("0") + d]

\* fmt "%d" of a natural number
RECURSIVE Dec(_)
Dec(n) == IF n < 10 THEN <<Digit(n)>> ELSE Append(Dec(n \div 10), Digit(n % 10))

\* fmt "%04d": zero-padded to at least four digits
RECURSIVE PadLeft(_, _)
PadLeft(s, w) == IF Len(s) >= w THEN s ELSE PadLeft(<<"0">> \o s, w)

PadWidth == 4
Dec04(n) == PadLeft(Dec(n), PadWidth)

\* sort.Strings: ascending byte order (insertion into a sorted list)
RECURSIVE InsertSorted(_, _)
InsertSorted(x, sorted) ==
    IF sorted = <<>> THEN <<x>>
    ELSE IF StrLess(x, Head(sorted)) THEN <<x>> \o sorted
    ELSE <<Head(sorted)>> \o InsertSorted(x, Tail(sorted))

RECURSIVE SortStrings(_)
SortStrings(ss) ==
    IF ss = <<>> THEN <<>> ELSE InsertSorted(Head(ss), SortStrings(Tail(ss)))

Range(f) == {f[k] : k \in DOMAIN f}

(***************************************************************************)
(* Paths (path.Clean, path.Join, filepath.Join on a slash-separated host)  *)
(***************************************************************************)
\* strings.Split(s, "/")
RECURSIVE SplitAcc(_, _, _, _)
SplitAcc(s, sep, cur, acc) ==
    IF s = <<>> THEN Append(acc, cur)
    ELSE IF Head(s) = sep THEN SplitAcc(Tail(s), sep, <<>>, Append(acc, cur))
    ELSE SplitAcc(Tail(s), sep, Append(cur, Head(s)), acc)

Split(s, sep) == SplitAcc(s, sep, <<>>, <<>>)

DotDot == <<".", ".">>
Dot    == <<".">>

\* the elements of a cleaned path: "" and "." dropped, "x/.." cancelled,
\* ".." dropped at the root and kept at the start of a relative path
RECURSIVE CleanSegs(_, _, _)
CleanSegs(segs, rooted, out) ==
    IF segs = <<>> THEN out
    ELSE LET e == Head(segs)
         IN  IF e = <<>> \/ e = Dot THEN CleanSegs(Tail(segs), rooted, out)
             ELSE IF e = DotDot
                  THEN IF out # <<>> /\ out[Len(out)] # DotDot
                       THEN CleanSegs(Tail(segs), rooted, SubSeq(out, 1, Len(out) - 1))
                       ELSE IF rooted THEN CleanSegs(Tail(segs), rooted, out)
                       ELSE CleanSegs(Tail(segs), rooted, Append(out, e))
                  ELSE CleanSegs(Tail(segs), rooted, Append(out, e))

\* path.Clean
Clean(p) ==
    LET rooted == p # <<>> /\ Head(p) = "/"
        segs   == CleanSegs(Split(p, "/"), rooted, <<>>)
        body   == JoinStr(segs, <<"/">>)
    IN  IF rooted THEN <<"/">> \o body
        ELSE IF body = <<>> THEN Dot ELSE body

\* path.Join / filepath.Join of two elements: empty elements are ignored
PathJoin(a, b) ==
    IF a = <<>> /\ b = <<>> THEN <<>>
    ELSE IF a = <<>> THEN Clean(b)
    ELSE IF b = <<>> THEN Clean(a)
    ELSE Clean(a \o <<"/">> \o b)

\* strings.ReplaceAll(p, "\\", "/")
RECURSIVE BackslashToSlash(_)
BackslashToSlash(p) ==
    IF p = <<>> THEN <<>>
    ELSE <<IF Head(p) = "\\" THEN "/" ELSE Head(p)>> \o BackslashToSlash(Tail(p))

normalizeEPUBPath(p) == Clean(BackslashToSlash(p))

(***************************************************************************)
(* util.go                                                                 *)
(***************************************************************************)
NavProp   == <<"n", "a", "v">>
CoverProp == <<"c", "o", "v", "e", "r", "-", "i", "m", "a", "g", "e">>

hasProperty(props, target) == \E k \in DOMAIN Fields(props) : Fields(props)[k] = target

addProperty(props, target) ==
    IF target = <<>> THEN props
    ELSE IF hasProperty(props, target) THEN props
    ELSE IF TrimSpace(props) = <<>> THEN target
    ELSE props \o <<" ">> \o target

(***************************************************************************)
(* buildPackage                                                            *)
(***************************************************************************)
DefaultTitle   == <<"M", "e", "r", "g", "e", "d", " ", "E", "P", "U", "B">>
DefaultLang    == <<"e", "n">>
UnknownCreator == <<"U", "n", "k", "n", "o", "w", "n">>
BookID         == <<"b", "o", "o", "k", "i", "d">>
URNPrefix      == <<"u", "r", "n", ":", "u", "u", "i", "d", ":">>

HexDigits == <<"0", "1", "2", "3", "4", "5", "6", "7", "8", "9",
               "a", "b", "c", "d", "e", "f">>
HexByte(b) == <<HexDigits[(b \div 16) + 1], HexDigits[(b % 16) + 1]>>

RECURSIVE HexBytes(_)
HexBytes(bs) == IF bs = <<>> THEN <<>> ELSE HexByte(Head(bs)) \o HexBytes(Tail(bs))

\* randomURN: rnd.ok is whether rand.Read succeeded, rnd.b the 16 bytes read
randomURN(rnd) ==
    IF ~rnd.ok
    THEN URNPrefix \o HexBytes(SubSeq([k \in 1..16 |-> 0], 1, 4)) \o <<"-">>
                   \o HexBytes(<<0, 0>>) \o <<"-">> \o HexBytes(<<0, 0>>) \o <<"-">>
                   \o HexBytes(<<0, 0>>) \o <<"-">>
                   \o HexBytes(SubSeq([k \in 1..16 |-> 0], 1, 6))
    ELSE LET b == [rnd.b EXCEPT ![7] = (rnd.b[7] % 16) + 64,
                                ![9] = (rnd.b[9] % 64) + 128]
         IN  URNPrefix \o HexBytes(SubSeq(b, 1, 4)) \o <<"-">>
                       \o HexBytes(SubSeq(b, 5, 6)) \o <<"-">>
                       \o HexBytes(SubSeq(b, 7, 8)) \o <<"-">>
                       \o HexBytes(SubSeq(b, 9, 10)) \o <<"-">>
                       \o HexBytes(SubSeq(b, 11, 16))

\* lines 426-436
mergedTitle(vols, o) ==
    LET t1 == IF o.Title = <<>> /\ Len(vols) > 0
              THEN IF Len(vols[1].Titles) > 0 THEN vols[1].Titles[1]
                   ELSE vols[1].DisplayName
              ELSE o.Title
    IN  IF t1 = <<>> THEN DefaultTitle ELSE t1

\* lines 438-448
mergedLang(vols, o) ==
    LET l1 == IF o.Language = <<>> /\ Len(vols) > 0
              THEN IF Len(vols[1].Languages) > 0 THEN vols[1].Languages[1]
                   ELSE DefaultLang
              ELSE o.Language
    IN  IF l1 = <<>> THEN DefaultLang ELSE l1

\* lines 454-467: the creators of all volumes, trimmed, blanks and repeats dropped
RECURSIVE collectCreators(_, _)
collectCreators(names, acc) ==
    IF names = <<>> THEN acc
    ELSE LET name == TrimSpace(Head(names))
         IN  IF name = <<>> \/ name \in Range(acc)
             THEN collectCreators(Tail(names), acc)
             ELSE collectCreators(Tail(names), Append(acc, name))

RECURSIVE allCreators(_)
allCreators(vols) ==
    IF vols = <<>> THEN <<>> ELSE Head(vols).Creators \o allCreators(Tail(vols))

\* creators left in the order in which they were collected
mergedCreators_Unsorted(vols, o) ==
    LET c1 == IF Len(o.Creators) > 0 THEN o.Creators
              ELSE collectCreators(allCreators(vols), <<>>)
    IN  IF Len(c1) = 0 THEN <<UnknownCreator>> ELSE c1

\* lines 450-472
mergedCreators(vols, o) ==
    LET c1 == IF Len(o.Creators) > 0 THEN o.Creators
              ELSE collectCreators(allCreators(vols), <<>>)
        c2 == IF Len(c1) = 0 THEN <<UnknownCreator>> ELSE c1
    IN  SortStrings(c2)

buildPackage(vols, mf, sp, o, coverID, rnd) ==
    [ Version          |-> "3.0",
      UniqueIdentifier |-> BookID,
      Lang             |-> mergedLang(vols, o),
      Titles           |-> <<mergedTitle(vols, o)>>,
      Languages        |-> <<mergedLang(vols, o)>>,
      Identifiers      |-> <<[ID |-> BookID, Value |-> randomURN(rnd)]>>,
      Creators         |-> mergedCreators(vols, o),
      Meta             |-> <<[Property |-> "novfmt:source-count",
                              Value |-> Dec(Len(vols))]>>
                           \o (IF coverID # <<>>
                               THEN <<[Name |-> "cover", Content |-> coverID]>>
                               ELSE <<>>),
      Manifest         |-> mf,
      Spine            |-> sp ]

(***************************************************************************)
(* loadVolume: what it computes from a parsed package document             *)
(***************************************************************************)
\* lines 162-168: href of the first manifest item carrying `nav`
RECURSIVE firstNavHref(_)
firstNavHref(its) ==
    IF its = <<>> THEN <<>>
    ELSE IF hasProperty(Head(its).Properties, NavProp) THEN Head(its).Href
    ELSE firstNavHref(Tail(its))

\* lines 171-176: the first non-blank cover meta-node, trimmed
RECURSIVE metaCoverID(_)
metaCoverID(metaCovers) ==
    IF metaCovers = <<>> THEN <<>>
    ELSE IF TrimSpace(Head(metaCovers)) # <<>> THEN TrimSpace(Head(metaCovers))
    ELSE metaCoverID(Tail(metaCovers))

\* lines 177-184: the first manifest item carrying `cover-image`
RECURSIVE firstCoverImageID(_)
firstCoverImageID(its) ==
    IF its = <<>> THEN <<>>
    ELSE IF hasProperty(Head(its).Properties, CoverProp) THEN Head(its).ID
    ELSE firstCoverImageID(Tail(its))

detectCoverID(src) ==
    IF metaCoverID(src.MetaCovers) # <<>> THEN metaCoverID(src.MetaCovers)
    ELSE firstCoverImageID(src.Items)

\* lines 196-199; idx is zero-based as in the code
displayName(idx, titles) ==
    IF Len(titles) > 0 /\ TrimSpace(titles[1]) # <<>> THEN titles[1]
    ELSE <<"V", "o", "l", "u", "m", "e", " ">> \o Dec(idx + 1)

\* lines 201-213: the Volume returned on success
loadedVolume(idx, src) ==
    [ Index       |-> idx,
      Titles      |-> src.Titles,
      Languages   |-> src.Languages,
      Creators    |-> src.Creators,
      Items       |-> src.Items,
      Itemrefs    |-> src.Itemrefs,
      NavHref     |-> firstNavHref(src.Items),
      DisplayName |-> displayName(idx, src.Titles),
      CoverID     |-> detectCoverID(src),
      Prefix      |-> <<>>,
      FirstHref   |-> <<>> ]

(***************************************************************************)
(* MergeEPUBs: the per-volume body of the merge loop (lines 336-391)       *)
(***************************************************************************)
\* a remapping without the separator between the number and the id
prefixedID_NoSeparator(idx, id) == <<"v">> \o Dec04(idx + 1) \o id

\* line 348 / 358: fmt.Sprintf("v%04d_%s", vol.Index+1, id)
prefixedID(idx, id) == <<"v">> \o Dec04(idx + 1) \o <<"_">> \o id

\* line 336
volumePrefix(idx) ==
    PathJoin(<<"V", "o", "l", "u", "m", "e", "s">>, <<"v">> \o Dec04(idx + 1))

\* lines 357-359: the fallback written to the merged entry
mergedFallback(idx, item) ==
    IF item.Fallback # <<>> THEN prefixedID(idx, item.Fallback) ELSE <<>>

\* lines 360-369: does this item become the merged cover?
takesCover(vol, item, cover) ==
    /\ cover = <<>>
    /\ \/ vol.CoverID # <<>> /\ item.ID = vol.CoverID
       \/ vol.CoverID = <<>> /\ hasProperty(item.Properties, CoverProp)

\* lines 351-356, 363, 366: the merged manifest entry of one source item
mergedEntry(vol, item, cover) ==
    [ ID         |-> prefixedID(vol.Index, item.ID),
      Href       |-> normalizeEPUBPath(PathJoin(volumePrefix(vol.Index), item.Href)),
      MediaType  |-> item.MediaType,
      Properties |-> IF takesCover(vol, item, cover)
                     THEN addProperty(item.Properties, CoverProp)
                     ELSE item.Properties,
      Fallback   |-> mergedFallback(vol.Index, item) ]

\* a merge loop that keeps the source navigation items
skipsItem_KeepsNav(item) == FALSE

\* line 345: the source's own navigation item is not carried over
skipsItem(item) == hasProperty(item.Properties, NavProp)

\* lines 344-372: the loop over the volume's manifest.  st = [mf, cover, idMap,
\* idHref] where idMap is the set of <<old id, new id>> pairs (a later pair for the same
\* old id overwrites the earlier one, as the map assignment does).
RECURSIVE mergeItems(_, _, _)
mergeItems(vol, its, st) ==
    IF its = <<>> THEN st
    ELSE LET item == Head(its)
         IN  IF skipsItem(item) THEN mergeItems(vol, Tail(its), st)
             ELSE LET e == mergedEntry(vol, item, st.cover)
                  IN  mergeItems(vol, Tail(its),
                        [ mf    |-> Append(st.mf, e),
                          cover |-> IF takesCover(vol, item, st.cover)
                                    THEN e.ID ELSE st.cover,
                          idMap |-> {pr \in st.idMap : pr[1] # item.ID}
                                    \cup {<<item.ID, e.ID>>},
                          idHref |-> {pr \in st.idHref : pr[1] # e.ID}
                                    \cup {<<e.ID, e.Href>>} ])

lookup(map, key) ==
    IF \E pr \in map : pr[1] = key
    THEN (CHOOSE pr \in map : pr[1] = key)[2]
    ELSE <<>>

hasKey(map, key) == \E pr \in map : pr[1] = key

\* a spine loop that carries every item-ref over, resolvable or not, and
\* records no first href
mergeSpine_Unfiltered(refs, idMap, hrefs, st) ==
    [ sp    |-> st.sp \o [ k \in DOMAIN refs |->
                             [IDRef |-> lookup(idMap, refs[k].IDRef),
                              Linear |-> refs[k].Linear] ],
      first |-> st.first ]

\* lines 378-391: the loop over the volume's spine.  st = [sp, first]
RECURSIVE mergeSpine(_, _, _, _)
mergeSpine(refs, idMap, hrefs, st) ==
    IF refs = <<>> THEN st
    ELSE LET ref == Head(refs)
         IN  IF ~hasKey(idMap, ref.IDRef) THEN mergeSpine(Tail(refs), idMap, hrefs, st)
             ELSE LET newID == lookup(idMap, ref.IDRef)
                  IN  mergeSpine(Tail(refs), idMap, hrefs,
                        [ sp    |-> Append(st.sp, [IDRef |-> newID, Linear |-> ref.Linear]),
                          first |-> IF st.first = <<>> THEN lookup(hrefs, newID)
                                    ELSE st.first ])

(***************************************************************************)
(* The inputs                                                              *)
(***************************************************************************)
NumSources == 2      \* most archives handed to one MergeEPUBs call

IdA == <<"a">>
IdB == <<"b">>

Item(id, props, fallback) ==
    [ID |-> id, Href |-> id \o <<".", "x">>, MediaType |-> "application/xhtml+xml",
     Properties |-> props, Fallback |-> fallback]

Ref(id, linear) == [IDRef |-> id, Linear |-> linear]

\* One or two manifest items with distinct ids; the second may be the volume's
\* navigation item; the first may fall back on the second's id (which then names
\* a content item, the navigation item, or nothing in the manifest).
Manifests ==
    {<<Item(IdA, <<>>, fb)>> : fb \in {<<>>, IdB}}
    \cup {<<Item(IdA, <<>>, fb), Item(IdB, pb, <<>>)>> :
            fb \in {<<>>, IdB}, pb \in {<<>>, NavProp}}

Spines ==
    { <<Ref(IdA, "")>>,
      <<Ref(IdB, "no"), Ref(IdA, "")>> }

PlainMeta ==
    [Titles |-> <<<<"T">>>>, Languages |-> <<>>, Creators |-> <<>>, MetaCovers |-> <<>>]

Package(meta, its, refs) ==
    [ Titles |-> meta.Titles, Languages |-> meta.Languages, Creators |-> meta.Creators,
      MetaCovers |-> meta.MetaCovers, Items |-> its, Itemrefs |-> refs ]

\* packages that differ in manifest references
RefPackages == {Package(PlainMeta, m, sp) : m \in Manifests, sp \in Spines}

\* packages that differ in how they name a cover
CoverPackages ==
    { Package([PlainMeta EXCEPT !.MetaCovers = mc],
              <<Item(IdA, <<>>, <<>>), Item(IdB, CoverProp, <<>>)>>, <<Ref(IdA, "")>>) :
        mc \in {<<>>, <<IdA>>, <<<<"z">>>>} }

Packages == RefPackages \cup CoverPackages

SourceLists == UNION {[1..n -> Packages] : n \in 1..NumSources}

PlainOpts ==
    [OutPath |-> "out.epub", Title |-> <<>>, Language |-> <<>>, Creators |-> <<>>]

RandomReads ==
    {[ok |-> FALSE, b |-> [k \in 1..16 |-> 0]]}
    \cup {[ok |-> TRUE, b |-> [k \in 1..16 |-> 255]]}

NoFile == [exists |-> FALSE, entries |-> <<>>, sealed |-> FALSE]

(***************************************************************************)
(* Files of the staging directory                                          *)
(***************************************************************************)
Oebps         == <<"O", "E", "B", "P", "S">>
NavFile       == <<"n", "a", "v", ".", "x", "h", "t", "m", "l">>
OpfFile       == <<"c", "o", "n", "t", "e", "n", "t", ".", "o", "p", "f">>
ContainerFile == <<"M", "E", "T", "A", "-", "I", "N", "F", "/",
                   "c", "o", "n", "t", "a", "i", "n", "e", "r", ".", "x", "m", "l">>
MimetypeFile  == <<"m", "i", "m", "e", "t", "y", "p", "e">>

\* copyVolumePayload (lines 665-692): every file of the volume but its package
\* document and its navigation document, under OEBPS/<prefix>/
RECURSIVE payloadFiles(_, _)
payloadFiles(vol, its) ==
    IF its = <<>> THEN <<>>
    ELSE LET rel  == Clean(Head(its).Href)
             rest == payloadFiles(vol, Tail(its))
         IN  IF vol.NavHref # <<>> /\ rel = Clean(vol.NavHref) THEN rest
             ELSE <<PathJoin(PathJoin(Oebps, volumePrefix(vol.Index)), rel)>> \o rest

\* addEPUBTree (lines 742-775): the walk visits the staged files in lexical
\* order and leaves out mimetype, which was written first
walkOrder(files) ==
    SortStrings(SelectSeq(files, LAMBDA f : f # MimetypeFile))

archiveOf(files) == <<MimetypeFile>> \o walkOrder(files)

(***************************************************************************)
(* Initial states                                                          *)
(***************************************************************************)
UnzipIdle ==
    /\ uzDst = <<>> /\ uzArchive = <<>> /\ uzPos = 0 /\ uzWritten = {} /\ uzErr = "idle"

NavIdle ==
    /\ stk = <<>> /\ budget = <<>> /\ items = <<>> /\ listStack = <<>> /\ liStack = <<>>
    /\ heap = <<>> /\ inTOC = FALSE /\ navDepth = 0 /\ navRet = "idle" /\ doc = <<>>

CallIdle == callArgs = <<>> /\ callRet = <<>>

MergeFresh ==
    /\ ctxDone = FALSE /\ i = 0 /\ dirs = {} /\ manifest = <<>> /\ spine = <<>>
    /\ idHref = {} /\ coverItemID = <<>> /\ stage = <<>> /\ pkg = Nil
    /\ outFile = NoFile /\ err = ""

\* A call of MergeEPUBs about to start.
Init ==
    /\ sources \in SourceLists
    /\ opts \in {PlainOpts, [PlainOpts EXCEPT !.OutPath = ""]}
    /\ volumes = [k \in 1..Len(sources) |-> Nil]
    /\ pc = "enter"
    /\ MergeFresh /\ UnzipIdle /\ NavIdle /\ CallIdle

(***************************************************************************)
(* MergeEPUBs                                                              *)
(***************************************************************************)
VolDir(k) == <<"novfmt-volume", k>>
StageDir  == <<"novfmt-stage", 0>>

\* return e; `removed` is what the deferred and explicit clean-ups delete
Return(e, removed) ==
    /\ pc' = "done"
    /\ err' = e
    /\ dirs' = dirs \ removed

AllVolDirs == {VolDir(k) : k \in 1..Len(sources)}

\* the deferred functions registered at lines 307-311 and 317
Deferred == AllVolDirs \cup {StageDir}

\* the context is cancelled by the caller, at any moment at which MergeEPUBs
\* still has a check of ctx ahead of it
Cancel ==
    /\ \/ pc \in {"enter", "load", "lv_mkdir", "lv_unzip", "lv_read", "stage"}
       \/ pc = "merge" /\ i <= Len(volumes)
    /\ ~ctxDone
    /\ ctxDone' = TRUE
    /\ UNCHANGED <<sources, opts, pc, i, volumes, dirs, manifest, spine, idHref,
                   coverItemID, stage, pkg, outFile, err>>
    /\ UNCHANGED <<unzipVars, navVars, callVars>>

\* lines 283-291
MergeEnter ==
    /\ pc = "enter"
    /\ IF Len(sources) < 2 THEN Return("need at least two input EPUB files", {})
       ELSE IF opts.OutPath = "" THEN Return("output path is required", {})
       ELSE pc' = "load" /\ UNCHANGED <<err, dirs>>
    /\ i' = 1
    /\ UNCHANGED <<sources, opts, ctxDone, volumes, manifest, spine, idHref,
                   coverItemID, stage, pkg, outFile>>
    /\ UNCHANGED <<unzipVars, navVars, callVars>>

\* lines 292-296: top of the load loop; the loop ends when i passes the last source
LoadNext ==
    /\ pc = "load"
    /\ IF i > Len(sources) THEN pc' = "stage" /\ UNCHANGED <<err, dirs>>
       ELSE IF ctxDone THEN Return("context canceled", {})
       ELSE pc' = "lv_mkdir" /\ UNCHANGED <<err, dirs>>
    /\ UNCHANGED <<sources, opts, ctxDone, i, volumes, manifest, spine, idHref,
                   coverItemID, stage, pkg, outFile>>
    /\ UNCHANGED <<unzipVars, navVars, callVars>>

\* loadVolume returned an error: lines 297-304 remove the volumes loaded so far
LoadFailed(e) == Return(e, {VolDir(k) : k \in {j \in 1..Len(sources) : volumes[j] # Nil}})

\* loadVolume lines 105-112
LoadVolumeMkdir ==
    /\ pc = "lv_mkdir"
    /\ IF ctxDone THEN LoadFailed("context canceled")
       ELSE \E ok \in BOOLEAN :
              IF ok THEN /\ dirs' = dirs \cup {VolDir(i)}
                         /\ pc' = "lv_unzip"
                         /\ UNCHANGED err
              ELSE LoadFailed("mktemp")
    /\ UNCHANGED <<sources, opts, ctxDone, i, volumes, manifest, spine, idHref,
                   coverItemID, stage, pkg, outFile>>
    /\ UNCHANGED <<unzipVars, navVars, callVars>>

\* loadVolume's cleanup (lines 114-117) followed by MergeEPUBs lines 297-304
LoadCleanup(e) ==
    Return(e, {VolDir(i)} \cup {VolDir(k) : k \in {j \in 1..Len(sources) : volumes[j] # Nil}})

\* loadVolume lines 119-125
LoadVolumeExtract ==
    /\ pc = "lv_unzip"
    /\ IF ctxDone THEN LoadCleanup("context canceled")
       ELSE \E ok \in BOOLEAN :
              IF ok THEN pc' = "lv_read" /\ UNCHANGED <<err, dirs>>
              ELSE LoadCleanup("extract")
    /\ UNCHANGED <<sources, opts, ctxDone, i, volumes, manifest, spine, idHref,
                   coverItemID, stage, pkg, outFile>>
    /\ UNCHANGED <<unzipVars, navVars, callVars>>

\* loadVolume lines 127-214, then MergeEPUBs line 305
LoadVolumeRead ==
    /\ pc = "lv_read"
    /\ IF ctxDone THEN LoadCleanup("context canceled") /\ UNCHANGED <<volumes, i>>
       ELSE \E ok \in BOOLEAN :
              IF ok THEN /\ volumes' = [volumes EXCEPT ![i] = loadedVolume(i - 1, sources[i])]
                         /\ i' = i + 1
                         /\ pc' = "load"
                         /\ UNCHANGED <<err, dirs>>
              ELSE LoadCleanup("read or parse") /\ UNCHANGED <<volumes, i>>
    /\ UNCHANGED <<sources, opts, ctxDone, manifest, spine, idHref,
                   coverItemID, stage, pkg, outFile>>
    /\ UNCHANGED <<unzipVars, navVars, callVars>>

\* lines 313-322
StageCreate ==
    /\ pc = "stage"
    /\ \E outcome \in {"ok", "mktemp", "mkdirall"} :
         IF outcome = "ok"
         THEN dirs' = dirs \cup {StageDir} /\ pc' = "merge" /\ i' = 1 /\ UNCHANGED err
         ELSE Return(outcome, Deferred) /\ UNCHANGED i
    /\ UNCHANGED <<sources, opts, ctxDone, volumes, manifest, spine, idHref,
                   coverItemID, stage, pkg, outFile>>
    /\ UNCHANGED <<unzipVars, navVars, callVars>>

\* lines 329-392: one round of the merge loop
MergeVolume ==
    /\ pc = "merge"
    /\ i <= Len(volumes)
    /\ IF ctxDone
       THEN /\ Return("context canceled", Deferred)
            /\ UNCHANGED <<i, volumes, manifest, spine, idHref, coverItemID, stage>>
       ELSE \E copied \in BOOLEAN :
              IF ~copied
              THEN /\ Return("copy", Deferred)
                   /\ UNCHANGED <<i, volumes, manifest, spine, idHref, coverItemID, stage>>
              ELSE LET vol == volumes[i]
                       ms  == mergeItems(vol, vol.Items,
                                [mf |-> manifest, cover |-> coverItemID,
                                 idMap |-> {}, idHref |-> idHref])
                       ss  == mergeSpine(vol.Itemrefs, ms.idMap, ms.idHref,
                                [sp |-> spine, first |-> vol.FirstHref])
                   IN  /\ manifest' = ms.mf
                       /\ coverItemID' = ms.cover
                       /\ idHref' = ms.idHref
                       /\ spine' = ss.sp
                       /\ volumes' = [volumes EXCEPT
                                        ![i].Prefix = volumePrefix(vol.Index),
                                        ![i].FirstHref = ss.first]
                       /\ stage' = stage \o payloadFiles(vol, vol.Items)
                       /\ i' = i + 1
                       /\ UNCHANGED <<pc, err, dirs>>
    /\ UNCHANGED <<sources, opts, ctxDone, pkg, outFile>>
    /\ UNCHANGED <<unzipVars, navVars, callVars>>

\* lines 394-399
navEntry ==
    [ID |-> NavProp, Href |-> NavFile, MediaType |-> "application/xhtml+xml",
     Properties |-> NavProp, Fallback |-> <<>>]

\* lines 401-416: the files MergeEPUBs itself writes to the stage, in order
finishFiles ==
    <<PathJoin(Oebps, NavFile), PathJoin(Oebps, OpfFile), ContainerFile, MimetypeFile>>

\* lines 394-416: nav entry, nav.xhtml, content.opf, container.xml, mimetype
MergeFinish ==
    /\ pc = "merge"
    /\ i > Len(volumes)
    /\ manifest' = Append(manifest, navEntry)
    /\ \E written \in 0..Len(finishFiles) :
         /\ stage' = stage \o SubSeq(finishFiles, 1, written)
         /\ IF written = 0 THEN UNCHANGED pkg      \* writeNav failed
            ELSE \E rnd \in RandomReads :
                   pkg' = buildPackage(volumes, manifest', spine, opts, coverItemID, rnd)
         /\ IF written = Len(finishFiles) THEN pc' = "zip" /\ UNCHANGED <<err, dirs>>
            ELSE Return("write", Deferred)
    /\ UNCHANGED <<sources, opts, ctxDone, i, volumes, spine, idHref, coverItemID, outFile>>
    /\ UNCHANGED <<unzipVars, navVars, callVars>>

\* writeZip lines 566-574
ZipCreate ==
    /\ pc = "zip"
    /\ \E outcome \in {"ok", "mkdirall", "create"} :
         IF outcome = "ok"
         THEN /\ outFile' = [exists |-> TRUE, entries |-> <<>>, sealed |-> FALSE]
              /\ pc' = "zip_tree"
              /\ UNCHANGED <<err, dirs>>
         ELSE Return(outcome, Deferred) /\ UNCHANGED outFile
    /\ UNCHANGED <<sources, opts, ctxDone, i, volumes, manifest, spine, idHref,
                   coverItemID, stage, pkg>>
    /\ UNCHANGED <<unzipVars, navVars, callVars>>

\* addEPUBTree lines 717-781, and the return of writeZip and MergeEPUBs.
\* n entries get written before an error (n = all of them: no error before
\* the final writer.Close, which may itself fail).
ZipAddTree ==
    /\ pc = "zip_tree"
    /\ LET all == archiveOf(stage)
       IN  \E n \in 0..Len(all), closed \in BOOLEAN :
             /\ closed => n = Len(all)
             /\ outFile' = [exists |-> TRUE, entries |-> SubSeq(all, 1, n),
                            sealed |-> closed]
             /\ Return(IF closed THEN "" ELSE "zip", Deferred)
    /\ UNCHANGED <<sources, opts, ctxDone, i, volumes, manifest, spine, idHref,
                   coverItemID, stage, pkg>>
    /\ UNCHANGED <<unzipVars, navVars, callVars>>

MergeNext ==
    \/ Cancel
    \/ MergeEnter
    \/ LoadNext
    \/ LoadVolumeMkdir
    \/ LoadVolumeExtract
    \/ LoadVolumeRead
    \/ StageCreate
    \/ MergeVolume
    \/ MergeFinish
    \/ ZipCreate
    \/ ZipAddTree

Next == MergeNext

Spec == Init /\ [][Next]_vars

(***************************************************************************)
(* Properties of MergeEPUBs (checked under Spec)                           *)
(***************************************************************************)
Returned == pc = "done"

entryIDs(mf) == {mf[k].ID : k \in DOMAIN mf}

navEntries(mf) == {k \in DOMAIN mf : hasProperty(mf[k].Properties, NavProp)}

\* C1: the manifest of the merged package holds exactly one entry with the
\* property `nav`, that entry has the id `nav`, no other entry has the id
\* `nav`, and every item-ref of the merged spine names the id of an entry of
\* the merged manifest.
C1_OneNavEntryAndSpineResolves ==
    pkg # Nil =>
        /\ Cardinality(navEntries(pkg.Manifest)) = 1
        /\ \A k \in navEntries(pkg.Manifest) : pkg.Manifest[k].ID = NavProp
        /\ Cardinality({k \in DOMAIN pkg.Manifest : pkg.Manifest[k].ID = NavProp}) = 1
        /\ \A r \in DOMAIN pkg.Spine : pkg.Spine[r].IDRef \in entryIDs(pkg.Manifest)

\* a source volume that has a navigation item and a spine item-ref naming it
refsOwnNav(src) ==
    \E k \in DOMAIN src.Items, r \in DOMAIN src.Itemrefs :
        /\ hasProperty(src.Items[k].Properties, NavProp)
        /\ src.Itemrefs[r].IDRef = src.Items[k].ID

\* a merge of two volumes succeeded, one source referring to its own navigation
\* item from its spine and another to an id missing from its manifest
C1_Witness ==
    /\ Returned /\ err = "" /\ pkg # Nil
    /\ Len(sources) >= 2
    /\ \E k \in DOMAIN sources : refsOwnNav(sources[k])
    /\ \E k \in DOMAIN sources : \E r \in DOMAIN sources[k].Itemrefs :
         sources[k].Itemrefs[r].IDRef \notin entryIDs(sources[k].Items)
    /\ Len(pkg.Spine) >= 2

\* C2: whenever MergeEPUBs returns, every volume extraction directory and the
\* staging directory created during the call have been removed.
C2_AllTempDirsRemovedOnReturn ==
    Returned => dirs = {}

\* C3: after MergeEPUBs returns, the output path holds a complete archive
\* (mimetype first, then every staged file) or no file produced by the call.
C3_CompleteArchiveOrNone ==
    Returned =>
        \/ ~outFile.exists
        \/ outFile.sealed /\ outFile.entries = archiveOf(stage)

\* C10: every non-empty fallback of the merged manifest names the id of an
\* entry of the merged manifest.
C10_FallbacksResolve ==
    pkg # Nil =>
        \A k \in DOMAIN pkg.Manifest :
            pkg.Manifest[k].Fallback # <<>> =>
                pkg.Manifest[k].Fallback \in entryIDs(pkg.Manifest)

\* the content of the cover meta-node of a package; "" if it has none
coverMetaOf(p) ==
    LET named == {m \in DOMAIN p.Meta : "Name" \in DOMAIN p.Meta[m]}
    IN  IF named = {} THEN <<>> ELSE p.Meta[CHOOSE m \in named : TRUE].Content

\* the item a source volume supplies as cover: the one its detected cover id
\* names, or else its first item carrying `cover-image`; "" if neither
suppliedCover(src) ==
    IF detectCoverID(src) \in entryIDs(src.Items) THEN detectCoverID(src)
    ELSE firstCoverImageID(src.Items)

\* the merged id of the cover supplied by the first of the sources k..n that
\* supplies one
RECURSIVE firstSuppliedCover(_)
firstSuppliedCover(k) ==
    IF k > Len(sources) THEN <<>>
    ELSE IF suppliedCover(sources[k]) # <<>>
         THEN prefixedID(k - 1, suppliedCover(sources[k]))
    ELSE firstSuppliedCover(k + 1)

\* C11: the merged cover is the cover of the first volume, in input order,
\* that supplies one, by its detected cover id or by an item that carries
\* `cover-image` (also when its cover meta-node names an id missing from its
\* manifest); later volumes do not change it.
C11_FirstSuppliedCoverWins ==
    pkg # Nil => coverMetaOf(pkg) = firstSuppliedCover(1)

\* an item-ref of a source survives the merge when it names a manifest item
\* of its volume that is not the volume's navigation item
survives(src, ref) ==
    \E k \in DOMAIN src.Items :
        /\ src.Items[k].ID = ref.IDRef
        /\ ~hasProperty(src.Items[k].Properties, NavProp)

survivingRefs(src) == SelectSeq(src.Itemrefs, LAMBDA ref : survives(src, ref))

\* the surviving item-refs of sources k..n, in order, under their merged ids
RECURSIVE concatenatedSpine(_)
concatenatedSpine(k) ==
    IF k > Len(sources) THEN <<>>
    ELSE [ r \in DOMAIN survivingRefs(sources[k]) |->
             [ IDRef  |-> prefixedID(k - 1, survivingRefs(sources[k])[r].IDRef),
               Linear |-> survivingRefs(sources[k])[r].Linear ] ]
         \o concatenatedSpine(k + 1)

\* the href of the merged manifest entry with the given id
mergedHrefOf(id) ==
    (CHOOSE e \in Range(pkg.Manifest) : e.ID = id).Href

\* the merged href of the first surviving item-ref of source k; "" if none
firstSurvivingHref(k) ==
    IF survivingRefs(sources[k]) = <<>> THEN <<>>
    ELSE mergedHrefOf(prefixedID(k - 1, survivingRefs(sources[k])[1].IDRef))

\* C17: the merged spine is the concatenation, in input order of the
\* volumes, of each volume's spine without the item-refs that name its
\* navigation item or an id absent from its manifest; order and linear flag
\* of the others are kept, and each volume's first content href is the merged
\* href of its first surviving item-ref.
C17_SpineIsConcatenationOfSurvivors ==
    pkg # Nil =>
        /\ pkg.Spine = concatenatedSpine(1)
        /\ \A k \in DOMAIN volumes : volumes[k].FirstHref = firstSurvivingHref(k)

\* two volumes merged: the first keeps both item-refs, the non-linear one
\* ahead, the second loses an item-ref and keeps the other
C17_Witness ==
    /\ pkg # Nil /\ Len(sources) = 2
    /\ Len(survivingRefs(sources[1])) = 2
    /\ Len(sources[2].Itemrefs) = 2 /\ Len(survivingRefs(sources[2])) = 1
    /\ Len(pkg.Spine) = 3
    /\ pkg.Spine[1] = [IDRef |-> prefixedID(0, IdB), Linear |-> "no"]
    /\ pkg.Spine[3] = [IDRef |-> prefixedID(1, IdA), Linear |-> ""]
    /\ volumes[1].FirstHref # <<>> /\ volumes[2].FirstHref # <<>>
    /\ volumes[1].FirstHref # volumes[2].FirstHref

\* the entries of a manifest that carry `cover-image`
coverEntries(mf) == {k \in DOMAIN mf : hasProperty(mf[k].Properties, CoverProp)}

\* C19: at most one entry of the merged manifest carries `cover-image`, and
\* when a cover was chosen that entry is the one the merged cover meta-node
\* names, also when a later volume or another item of the chosen volume
\* carried `cover-image` in its source manifest.
C19_AtMostOneCoverImageEntry ==
    pkg # Nil =>
        /\ Cardinality(coverEntries(pkg.Manifest)) <= 1
        /\ coverMetaOf(pkg) # <<>> =>
              \E k \in DOMAIN pkg.Manifest :
                  /\ pkg.Manifest[k].ID = coverMetaOf(pkg)
                  /\ coverEntries(pkg.Manifest) = {k}

(***************************************************************************)
(* unzip (lines 216-261), run on its own: SpecUnzip                        *)
(***************************************************************************)
MaxEntries == 2      \* most entries of an archive

\* extraction directories as os.MkdirTemp returns them: absolute, cleaned
DstDirs == { <<"/", "t", "/", "x">>, <<"/", "t", "/", "x", "/", "v">> }

File(name)     == [Name |-> name, IsDir |-> FALSE]
Folder(name)   == [Name |-> name, IsDir |-> TRUE]

\* zip entry names: plain, nested, a directory, climbing out of the
\* destination, into a sibling whose name starts like the destination's,
\* back into the destination, and with a leading slash
EntryNames ==
    { File(<<"f">>),
      File(<<"d", "/", "f">>),
      Folder(<<"d", "/">>),
      File(<<".", ".", "/", "f">>),
      File(<<".", ".", "/", "x", "e", "/", "f">>),
      File(<<".", ".", "/", "v", "/", "f">>),
      File(<<".", ".", "/", ".", ".", "/", "x", "/", "g">>),
      File(<<"/", "f">>) }

Archives == UNION {[1..n -> EntryNames] : n \in 0..MaxEntries}

InitUnzip ==
    /\ uzDst \in DstDirs
    /\ uzArchive \in Archives
    /\ uzPos = 1
    /\ uzWritten = {}
    /\ uzErr = "running"
    /\ sources = <<>> /\ opts = PlainOpts /\ volumes = <<>> /\ pc = "unzip"
    /\ MergeFresh /\ NavIdle /\ CallIdle

\* line 224
unzipTarget(dst, f) == PathJoin(dst, f.Name)

\* line 225: the entry is taken to stay inside dst
acceptsTarget(target, dst) == HasPrefix(target, dst)

\* lines 223-258: one round of the loop over r.File
UnzipEntry ==
    /\ pc = "unzip" /\ uzErr = "running"
    /\ uzPos <= Len(uzArchive)
    /\ LET target == unzipTarget(uzDst, uzArchive[uzPos])
       IN  IF ~acceptsTarget(target, uzDst)
           THEN uzErr' = "escapes destination" /\ UNCHANGED <<uzPos, uzWritten>>
           ELSE \E ok \in BOOLEAN :
                  IF ok THEN /\ uzWritten' = uzWritten \cup {target}
                             /\ uzPos' = uzPos + 1
                             /\ UNCHANGED uzErr
                  ELSE uzErr' = "io" /\ UNCHANGED <<uzPos, uzWritten>>
    /\ UNCHANGED <<uzDst, uzArchive>>
    /\ UNCHANGED <<mergeVars, navVars, callVars>>

\* line 260
UnzipReturn ==
    /\ pc = "unzip" /\ uzErr = "running"
    /\ uzPos > Len(uzArchive)
    /\ uzErr' = ""
    /\ UNCHANGED <<uzDst, uzArchive, uzPos, uzWritten>>
    /\ UNCHANGED <<mergeVars, navVars, callVars>>

NextUnzip == UnzipEntry \/ UnzipReturn

SpecUnzip == InitUnzip /\ [][NextUnzip]_vars

\* the elements of an absolute cleaned path
elements(p) == SelectSeq(Split(p, "/"), LAMBDA e : e # <<>>)

\* p is dir itself or lies below it
liesInside(p, dir) ==
    /\ Len(elements(dir)) <= Len(elements(p))
    /\ SubSeq(elements(p), 1, Len(elements(dir))) = elements(dir)

\* C4: unzip rejects every entry whose target lies outside the destination
\* directory (a sibling directory whose name starts with the destination's
\* name included) and writes nothing outside the destination directory.
C4_NothingExtractedOutside ==
    /\ \A w \in uzWritten : liesInside(w, uzDst)
    /\ \A k \in 1..Len(uzArchive) :
         (k < uzPos \/ (k = uzPos /\ uzErr \notin {"running", "io"}))
         /\ ~liesInside(unzipTarget(uzDst, uzArchive[k]), uzDst)
            => uzErr = "escapes destination" /\ uzPos = k

(***************************************************************************)
(* buildPackage (lines 425-517), run on its own: SpecPkg                   *)
(***************************************************************************)
TitleLists    == { <<>>, <<<<>>>>, <<<<"S">>>> }
LanguageLists == { <<>>, <<<<"j", "a">>>> }
CreatorLists  == { <<>>,
                   <<<<"B">>, <<" ", "A">>>>,
                   <<<<"A", " ">>, <<" ">>, <<"B">>, <<"A", "b">>>> }

PkgPackages ==
    { Package([Titles |-> t, Languages |-> l, Creators |-> c, MetaCovers |-> <<>>],
              <<>>, <<>>) :
        t \in TitleLists, l \in LanguageLists, c \in CreatorLists }

PkgOpts ==
    { [OutPath |-> "out.epub", Title |-> t, Language |-> <<>>, Creators |-> c] :
        t \in {<<>>, <<"O">>},
        c \in {<<>>, <<<<"B">>, <<"A">>, <<"B">>>>} }

\* buildPackage is about to be called on volumes that loadVolume returned
InitPkg ==
    /\ sources \in UNION {[1..n -> PkgPackages] : n \in 2..NumSources}
    /\ opts \in PkgOpts
    /\ volumes = [k \in 1..Len(sources) |-> loadedVolume(k - 1, sources[k])]
    /\ pc = "build"
    /\ MergeFresh /\ UnzipIdle /\ NavIdle /\ CallIdle

BuildPackageCall ==
    /\ pc = "build"
    /\ \E rnd \in RandomReads :
         pkg' = buildPackage(volumes, manifest, spine, opts, coverItemID, rnd)
    /\ pc' = "built"
    /\ UNCHANGED <<sources, opts, ctxDone, i, volumes, dirs, manifest, spine, idHref,
                   coverItemID, stage, outFile, err>>
    /\ UNCHANGED <<unzipVars, navVars, callVars>>

NextPkg == BuildPackageCall

SpecPkg == InitPkg /\ [][NextPkg]_vars

Built == pc = "built"

\* C7: with a non-empty creator override, the merged creators are exactly the
\* override list, in the given order.
C7_OverrideCreatorsVerbatim ==
    Built /\ Len(opts.Creators) > 0 => pkg.Creators = opts.Creators

\* the trimmed, non-blank creators of all volumes
sourceCreators ==
    UNION { {TrimSpace(volumes[v].Creators[k]) : k \in DOMAIN volumes[v].Creators} :
              v \in DOMAIN volumes } \ {<<>>}

\* C8: without a creator override, the merged creators are the union of the
\* volumes' creators, trimmed, blanks dropped, each once, in ascending order;
\* a single placeholder when that union is empty.
C8_DefaultCreatorsSortedUnion ==
    Built /\ Len(opts.Creators) = 0 =>
        IF sourceCreators = {}
        THEN pkg.Creators = <<UnknownCreator>>
        ELSE /\ Range(pkg.Creators) = sourceCreators
             /\ Len(pkg.Creators) = Cardinality(sourceCreators)
             /\ \A k \in 1..(Len(pkg.Creators) - 1) :
                  StrLess(pkg.Creators[k], pkg.Creators[k + 1])

\* no override; the same creator comes from two volumes, one value needs
\* trimming, and the source order is not the sorted order
C8_Witness ==
    /\ Built /\ Len(opts.Creators) = 0
    /\ \E v, w \in DOMAIN volumes :
         /\ v < w
         /\ \E k \in DOMAIN volumes[v].Creators, m \in DOMAIN volumes[w].Creators :
              TrimSpace(volumes[v].Creators[k]) = TrimSpace(volumes[w].Creators[m])
         /\ \E k \in DOMAIN volumes[v].Creators :
              /\ TrimSpace(volumes[v].Creators[k]) # volumes[v].Creators[k]
              /\ TrimSpace(volumes[v].Creators[k]) # <<>>
         /\ volumes[v].Creators[1] = <<"B">>
    /\ Len(pkg.Creators) >= 2
    /\ pkg.Creators[1] = <<"A">>

\* the title C9 describes
claimedTitle ==
    IF opts.Title # <<>> THEN opts.Title
    ELSE IF Len(volumes[1].Titles) > 0 /\ volumes[1].Titles[1] # <<>>
         THEN volumes[1].Titles[1]
    ELSE IF volumes[1].DisplayName # <<>> THEN volumes[1].DisplayName
    ELSE DefaultTitle

\* C9: the merged title is the override, else the first volume's first title,
\* else the first volume's display name (also when the first title is present
\* but empty), else the fixed default; it is never empty.
C9_TitleFallbackChain ==
    Built => /\ pkg.Titles = <<claimedTitle>>
             /\ pkg.Titles[1] # <<>>

\* 8-4-4-4-12 lower-case hex digits
isUUIDText(u) ==
    /\ Len(u) = 36
    /\ \A k \in 1..36 :
         IF k \in {9, 14, 19, 24} THEN u[k] = "-"
         ELSE \E d \in DOMAIN HexDigits : HexDigits[d] = u[k]

\* a version-4 UUID (RFC 4122): version digit 4, variant digit 8, 9, a or b
isUUIDv4URN(str) ==
    /\ HasPrefix(str, URNPrefix)
    /\ LET u == SubSeq(str, Len(URNPrefix) + 1, Len(str))
       IN  /\ isUUIDText(u)
           /\ u[15] = "4"
           /\ u[20] \in {"8", "9", "a", "b"}

\* C12: a built package declares the unique-identifier `bookid` and has
\* exactly one identifier, with id `bookid` and a UUID-v4 URN as value, on
\* every path of the generator, the failure of the random source included.
C12_OneBookIDWithV4URN ==
    Built =>
        /\ pkg.UniqueIdentifier = BookID
        /\ Len(pkg.Identifiers) = 1
        /\ pkg.Identifiers[1].ID = BookID
        /\ isUUIDv4URN(pkg.Identifiers[1].Value)

(***************************************************************************)
(* parseNavDocument (nav.go lines 32-141), run on its own: SpecNav         *)
(*                                                                         *)
(* The document reaches the function as the token stream of xml.Decoder    *)
(* with Strict = false.  The decoder keeps a stack of open elements: an    *)
(* end token always closes the innermost open element, io.EOF is returned  *)
(* only with no element open, and anything else is a syntax error.         *)
(***************************************************************************)
MaxNav  == 1      \* nav elements in a document
MaxOl   == 1      \* ol elements
MaxLi   == 2      \* li elements
MaxA    == 1      \* a elements
MaxText == 1      \* character-data tokens

NavNS == "http://www.idpf.org/2007/ops"

Attr(space, local, value) == [Space |-> space, Local |-> local, Value |-> value]

Toc == <<"t", "o", "c">>

\* attribute lists of a nav start tag
NavAttrs ==
    { <<Attr(NavNS, "type", Toc)>>,
      <<Attr(NavNS, "type", <<"l", "m">>)>> }

\* attribute lists of an a start tag
AnchorAttrs ==
    { <<>>,
      <<Attr("", "href", <<>>)>>,
      <<Attr("", "href", <<" ", "p", "#", "1">>)>> }

Texts == { <<" ", "T", " ">> }

StartTok(name, attrs) == [k |-> "start", n |-> name, attr |-> attrs]
EndTok(name)          == [k |-> "end", n |-> name]
TextTok(chars)        == [k |-> "text", s |-> chars]

\* lines 143-159
hasTOCTypeAttr(attrs) ==
    \E a \in DOMAIN attrs :
        /\ attrs[a].Local = "type"
        /\ attrs[a].Space = "" \/ attrs[a].Space = NavNS
        /\ \E f \in DOMAIN Fields(attrs[a].Value) : Fields(attrs[a].Value)[f] = Toc

\* lines 161-167
normalizeSpace(str) ==
    IF TrimSpace(str) = <<>> THEN <<>> ELSE JoinStr(Fields(TrimSpace(str)), <<" ">>)

\* lines 89-94: the value of the first href attribute, trimmed; "" if none
RECURSIVE firstHrefAttr(_)
firstHrefAttr(attrs) ==
    IF attrs = <<>> THEN <<>>
    ELSE IF Head(attrs).Local = "href" THEN TrimSpace(Head(attrs).Value)
    ELSE firstHrefAttr(Tail(attrs))

Top(stack) == stack[Len(stack)]
Pop(stack) == SubSeq(stack, 1, Len(stack) - 1)

InitNav ==
    /\ stk = <<>>
    /\ budget = [nav |-> MaxNav, ol |-> MaxOl, li |-> MaxLi, a |-> MaxA, text |-> MaxText,
                 pre |-> 0]
    /\ items = <<>> /\ listStack = <<>> /\ liStack = <<>> /\ heap = <<>>
    /\ inTOC = FALSE /\ navDepth = 0
    /\ navRet = "run"
    /\ doc = <<>>
    /\ sources = <<>> /\ opts = PlainOpts /\ volumes = <<>> /\ pc = "nav"
    /\ MergeFresh /\ UnzipIdle /\ CallIdle

Running == pc = "nav" /\ navRet = "run"

\* The documents considered.  Inside the TOC nav: a nav inside a nav or an li,
\* an ol inside a nav or an li, an li inside an ol, a nav or another li, anchors
\* inside an li, text inside an li or an anchor.  Before the TOC nav, whose
\* content the function skips: nav elements and list items directly in them
\* (budget.pre of them).
mayOpen(name) ==
    IF Len(stk) = 0 THEN name = "nav"
    ELSE IF ~inTOC THEN name \in {"nav", "li"} /\ Top(stk) = "nav"
    ELSE CASE name = "nav"  -> Top(stk) \in {"nav", "li"}
           [] name = "ol"   -> Top(stk) \in {"nav", "li"}
           [] name = "li"   -> Top(stk) \in {"nav", "ol", "li"}
           [] name = "a"    -> Top(stk) = "li"
           [] name = "text" -> Top(stk) \in {"li", "a"}

\* the decoder hands out the start tag of a nav element: lines 55-65
StartNav ==
    /\ Running /\ budget.nav > 0 /\ mayOpen("nav")
    /\ \E attrs \in (IF inTOC THEN {<<>>} ELSE NavAttrs) :
         /\ doc' = Append(doc, StartTok("nav", attrs))
         /\ IF ~inTOC /\ hasTOCTypeAttr(attrs)
            THEN inTOC' = TRUE /\ navDepth' = 1
            ELSE IF inTOC THEN navDepth' = navDepth + 1 /\ UNCHANGED inTOC
            ELSE UNCHANGED <<inTOC, navDepth>>
    /\ stk' = Append(stk, "nav")
    /\ budget' = [budget EXCEPT !.nav = @ - 1]
    /\ UNCHANGED <<items, listStack, liStack, heap, navRet>>
    /\ UNCHANGED <<mergeVars, unzipVars, callVars>>

\* start tag of an ol: lines 66-77
StartOl ==
    /\ Running /\ budget.ol > 0 /\ mayOpen("ol")
    /\ doc' = Append(doc, StartTok("ol", <<>>))
    /\ stk' = Append(stk, "ol")
    /\ budget' = [budget EXCEPT !.ol = @ - 1]
    /\ IF inTOC
       THEN listStack' = Append(listStack, IF Len(liStack) > 0 THEN Top(liStack) ELSE 0)
       ELSE UNCHANGED listStack
    /\ UNCHANGED <<items, liStack, heap, inTOC, navDepth, navRet>>
    /\ UNCHANGED <<mergeVars, unzipVars, callVars>>

newItemState == [Href |-> <<>>, text |-> <<>>, Children |-> <<>>]

\* start tag of an li: lines 66-68, 78-80
StartLi ==
    /\ Running /\ mayOpen("li")
    /\ IF inTOC THEN budget.li > 0 ELSE budget.pre > 0
    /\ doc' = Append(doc, StartTok("li", <<>>))
    /\ stk' = Append(stk, "li")
    /\ budget' = IF inTOC THEN [budget EXCEPT !.li = @ - 1]
                 ELSE [budget EXCEPT !.pre = @ - 1]
    /\ IF inTOC
       THEN /\ heap' = Append(heap, newItemState)
            /\ liStack' = Append(liStack, Len(heap) + 1)
       ELSE UNCHANGED <<heap, liStack>>
    /\ UNCHANGED <<items, listStack, inTOC, navDepth, navRet>>
    /\ UNCHANGED <<mergeVars, unzipVars, callVars>>

\* lines 81-94: the href an anchor gives to the item in progress
anchorHref(curr, attrs) ==
    IF curr.Href # <<>> THEN curr.Href ELSE firstHrefAttr(attrs)

\* start tag of an a: lines 66-68, 81-94
StartA ==
    /\ Running /\ budget.a > 0 /\ mayOpen("a")
    /\ \E attrs \in AnchorAttrs :
         /\ doc' = Append(doc, StartTok("a", attrs))
         /\ IF inTOC /\ Len(liStack) > 0
            THEN heap' = [heap EXCEPT ![Top(liStack)].Href =
                                         anchorHref(heap[Top(liStack)], attrs)]
            ELSE UNCHANGED heap
    /\ stk' = Append(stk, "a")
    /\ budget' = [budget EXCEPT !.a = @ - 1]
    /\ UNCHANGED <<items, listStack, liStack, inTOC, navDepth, navRet>>
    /\ UNCHANGED <<mergeVars, unzipVars, callVars>>

\* adjacent character data reaches the function as one token
lastIsText == IF doc = <<>> THEN FALSE ELSE doc[Len(doc)].k = "text"

\* character data: lines 128-132
CharData ==
    /\ Running /\ budget.text > 0 /\ mayOpen("text")
    /\ ~lastIsText
    /\ \E chars \in Texts :
         /\ doc' = Append(doc, TextTok(chars))
         /\ IF inTOC /\ Len(liStack) > 0
            THEN heap' = [heap EXCEPT ![Top(liStack)].text = @ \o chars]
            ELSE UNCHANGED heap
    /\ budget' = [budget EXCEPT !.text = @ - 1]
    /\ UNCHANGED <<stk, items, listStack, liStack, inTOC, navDepth, navRet>>
    /\ UNCHANGED <<mergeVars, unzipVars, callVars>>

\* lines 117-121: the NavItem made of a finished navItemState
finishedItem(state) ==
    [Title |-> normalizeSpace(state.text), Href |-> state.Href, Children |-> state.Children]

\* every finished item appended to the top-level list
appendTarget_TopLevel(lists) == 0

\* lines 122-125: where a finished item is appended (0 = items)
appendTarget(lists) == IF Len(lists) > 0 THEN Top(lists) ELSE 0

\* the end tag of the innermost open element: lines 96-127
EndElement ==
    /\ Running /\ Len(stk) > 0
    /\ doc' = Append(doc, EndTok(Top(stk)))
    /\ stk' = Pop(stk)
    /\ IF Top(stk) = "nav" /\ inTOC
       THEN /\ navDepth' = navDepth - 1
            /\ IF navDepth - 1 = 0
               THEN inTOC' = FALSE /\ navRet' = "ok"
               ELSE UNCHANGED <<inTOC, navRet>>
            /\ UNCHANGED <<items, listStack, liStack, heap>>
       ELSE IF ~inTOC
       THEN UNCHANGED <<items, listStack, liStack, heap, inTOC, navDepth, navRet>>
       ELSE IF Top(stk) = "ol"
       THEN /\ listStack' = IF Len(listStack) > 0 THEN Pop(listStack) ELSE listStack
            /\ UNCHANGED <<items, liStack, heap, inTOC, navDepth, navRet>>
       ELSE IF Top(stk) = "li" /\ Len(liStack) > 0
       THEN LET item   == finishedItem(heap[Top(liStack)])
                target == appendTarget(listStack)
            IN  /\ liStack' = Pop(liStack)
                /\ IF target = 0
                   THEN items' = Append(items, item) /\ UNCHANGED heap
                   ELSE /\ heap' = [heap EXCEPT ![target].Children = Append(@, item)]
                        /\ UNCHANGED items
                /\ UNCHANGED <<listStack, inTOC, navDepth, navRet>>
       ELSE UNCHANGED <<items, listStack, liStack, heap, inTOC, navDepth, navRet>>
    /\ UNCHANGED budget
    /\ UNCHANGED <<mergeVars, unzipVars, callVars>>

\* io.EOF with every element closed: lines 46-49, 136-140
EndOfDocument ==
    /\ Running /\ Len(stk) = 0
    /\ navRet' = IF Len(items) = 0 THEN "notfound" ELSE "ok"
    /\ UNCHANGED <<stk, budget, items, listStack, liStack, heap, inTOC, navDepth, doc>>
    /\ UNCHANGED <<mergeVars, unzipVars, callVars>>

\* the decoder reports malformed markup (the input ends inside an element,
\* or holds a stray end tag): lines 46-51.  (nil, err) is returned and nothing
\* of the run is kept.
SyntaxError ==
    /\ Running /\ Len(stk) > 0
    /\ navRet' = "syntax"
    /\ items' = <<>> /\ listStack' = <<>> /\ liStack' = <<>> /\ heap' = <<>>
    /\ stk' = <<>> /\ doc' = <<>> /\ inTOC' = FALSE /\ navDepth' = 0
    /\ UNCHANGED budget
    /\ UNCHANGED <<mergeVars, unzipVars, callVars>>

\* documents of nav, ol and li elements and character data
NextNav ==
    \/ StartNav
    \/ StartOl
    \/ StartLi
    \/ CharData
    \/ EndElement
    \/ EndOfDocument
    \/ SyntaxError

SpecNav == InitNav /\ [][NextNav]_vars

\* Documents with a second nav element, before the TOC nav or inside it, and
\* list items in a nav that comes before the TOC nav: SpecNavNested
MaxNavNested == 2      \* nav elements in such a document
MaxPreLi     == 1      \* li elements before the TOC nav

InitNavNested ==
    /\ stk = <<>>
    /\ budget = [nav |-> MaxNavNested, ol |-> MaxOl, li |-> MaxLi, a |-> 0,
                 text |-> MaxText, pre |-> MaxPreLi]
    /\ items = <<>> /\ listStack = <<>> /\ liStack = <<>> /\ heap = <<>>
    /\ inTOC = FALSE /\ navDepth = 0
    /\ navRet = "run"
    /\ doc = <<>>
    /\ sources = <<>> /\ opts = PlainOpts /\ volumes = <<>> /\ pc = "nav"
    /\ MergeFresh /\ UnzipIdle /\ CallIdle

SpecNavNested == InitNavNested /\ [][NextNav]_vars

\* Documents whose list items hold anchors: SpecNavAnchors
MaxAnchors == 2      \* a elements in such a document

InitNavAnchors ==
    /\ stk = <<>>
    /\ budget = [nav |-> MaxNav, ol |-> MaxOl, li |-> MaxLi, a |-> MaxAnchors,
                 text |-> MaxText, pre |-> 0]
    /\ items = <<>> /\ listStack = <<>> /\ liStack = <<>> /\ heap = <<>>
    /\ inTOC = FALSE /\ navDepth = 0
    /\ navRet = "run"
    /\ doc = <<>>
    /\ sources = <<>> /\ opts = PlainOpts /\ volumes = <<>> /\ pc = "nav"
    /\ MergeFresh /\ UnzipIdle /\ CallIdle

NextNavAnchors ==
    \/ StartNav
    \/ StartOl
    \/ StartLi
    \/ StartA
    \/ CharData
    \/ EndElement
    \/ EndOfDocument
    \/ SyntaxError

SpecNavAnchors == InitNavAnchors /\ [][NextNavAnchors]_vars

\* ---- parseNavDocument read against the token history ----

Returned_nav == pc = "nav" /\ navRet \in {"ok", "notfound"}

isStart(p, name) == doc[p].k = "start" /\ doc[p].n = name

\* positions of the nav start tags that carry the toc type
tocStarts == { p \in DOMAIN doc : isStart(p, "nav") /\ hasTOCTypeAttr(doc[p].attr) }

liStarts == { p \in DOMAIN doc : isStart(p, "li") }

\* C5: parseNavDocument answers "not found", and never succeeds with an empty
\* result, when the document has no nav element whose type includes toc and
\* when the TOC nav is closed without having held a list item.
C5_NotFoundNeverEmptySuccess ==
    Returned_nav =>
        /\ (tocStarts = {} => navRet = "notfound")
        /\ (liStarts = {} => navRet = "notfound")
        /\ (navRet = "ok" => items # <<>>)

\* openElements(k)[j], for j in 1..k, is the stack of the elements open after
\* the first j tokens, outermost first, each named by the position of its
\* start tag
RECURSIVE openElements(_)
openElements(k) ==
    IF k = 0 THEN <<>>
    ELSE LET before == openElements(k - 1)
             prev   == IF k = 1 THEN <<>> ELSE before[k - 1]
         IN  Append(before, CASE doc[k].k = "start" -> Append(prev, k)
                              [] doc[k].k = "end"   -> Pop(prev)
                              [] OTHER              -> prev)

openAfter(open, k) == IF k = 0 THEN <<>> ELSE open[k]

\* the innermost element called name among the open ones; 0 if none
RECURSIVE innermost(_, _)
innermost(stack, name) ==
    IF stack = <<>> THEN 0
    ELSE IF doc[Top(stack)].n = name THEN Top(stack)
    ELSE innermost(Pop(stack), name)

\* the position of the end tag of the element started at p
closeOf(open, p) ==
    CHOOSE q \in (p + 1)..Len(doc) :
        /\ doc[q].k = "end"
        /\ open[q - 1] # <<>> /\ Top(open[q - 1]) = p

\* the li in whose list the li started at p belongs: the one in progress when
\* the innermost ol around p was opened; 0 stands for the top level
ownerOf(open, p) ==
    LET list == innermost(openAfter(open, p - 1), "ol")
    IN  IF list = 0 THEN 0 ELSE innermost(openAfter(open, list - 1), "li")

\* the text inside the li started at p and outside every li nested in it
RECURSIVE ownText(_, _, _)
ownText(open, p, k) ==
    IF k = 0 THEN <<>>
    ELSE ownText(open, p, k - 1) \o
         (IF doc[k].k = "text" /\ innermost(open[k], "li") = p
          THEN doc[k].s ELSE <<>>)

\* the members of S as a sequence, by ascending key
RECURSIVE orderedBy(_, _)
orderedBy(S, key) ==
    IF S = {} THEN <<>>
    ELSE LET m == CHOOSE x \in S : \A y \in S : key[x] <= key[y]
         IN  <<m>> \o orderedBy(S \ {m}, key)

startOrder == [p \in liStarts |-> p]
closeOrder == [p \in liStarts |-> closeOf(openElements(Len(doc)), p)]

\* the tree the markup describes, siblings ordered by key
RECURSIVE markupList(_, _, _)
markupList(open, owner, key) ==
    LET members == orderedBy({ p \in liStarts : ownerOf(open, p) = owner }, key)
    IN  [ m \in DOMAIN members |->
            [ Title    |-> normalizeSpace(ownText(open, members[m], Len(doc))),
              Children |-> markupList(open, members[m], key) ] ]

markupTree(key) == markupList(openElements(Len(doc)), 0, key)

\* a returned tree without its hrefs
RECURSIVE shapeOf(_)
shapeOf(list) ==
    [ m \in DOMAIN list |->
        [ Title |-> list[m].Title, Children |-> shapeOf(list[m].Children) ] ]

RECURSIVE sizeOf(_)
sizeOf(list) ==
    IF list = <<>> THEN 0 ELSE 1 + sizeOf(Head(list).Children) + sizeOf(Tail(list))

\* C6 as stated: the returned tree has one item per li, an item's children
\* are the li elements of the lists opened in it, its title is the text inside
\* it and outside nested li elements, and siblings are in document order.
C6_TreeMirrorsMarkupInDocumentOrder ==
    (pc = "nav" /\ navRet = "ok") =>
        /\ sizeOf(items) = Cardinality(liStarts)
        /\ shapeOf(items) = markupTree(startOrder)

\* C6, amended: the same tree with siblings in the order in which their li
\* elements are closed, which is the document order unless an li lies
\* directly inside another li (the inner one then comes first).
C6_TreeMirrorsMarkupInCloseOrder ==
    (pc = "nav" /\ navRet = "ok") =>
        /\ sizeOf(items) = Cardinality(liStarts)
        /\ shapeOf(items) = markupTree(closeOrder)

\* a returned tree whose one top-level item has a titled child
C6_Witness ==
    /\ pc = "nav" /\ navRet = "ok"
    /\ Len(items) = 1
    /\ Len(items[1].Children) = 1
    /\ items[1].Title = <<>>
    /\ items[1].Children[1].Title = <<"T">>
\* the start tag that opens the TOC nav: the first nav start tag of toc type
tocStart == CHOOSE p \in tocStarts : \A q \in tocStarts : p <= q

\* the li elements whose innermost enclosing nav is the TOC nav itself
tocOwnLis ==
    { p \in liStarts :
        innermost(openAfter(openElements(Len(doc)), p - 1), "nav") = tocStart }

\* C15: no NavItem comes from a list item inside a nav other than the TOC nav
\* itself, be it a nav before the TOC or a nav nested in the TOC; the end tag
\* of a nested nav does not end the walk, the TOC's later list items are
\* returned.
C15_OnlyTheTOCsOwnListItems ==
    (pc = "nav" /\ navRet = "ok") => sizeOf(items) = Cardinality(tocOwnLis)

\* the first a start tag inside the li started at p and outside every li
\* nested in it; 0 if there is none
firstAnchorOf(open, p) ==
    LET own == { k \in DOMAIN doc : isStart(k, "a") /\ innermost(open[k], "li") = p }
    IN  IF own = {} THEN 0 ELSE CHOOSE k \in own : \A j \in own : k <= j

\* the href of that anchor; "" if the li has no anchor or the anchor no href
firstAnchorHref(open, p) ==
    IF firstAnchorOf(open, p) = 0 THEN <<>>
    ELSE firstHrefAttr(doc[firstAnchorOf(open, p)].attr)

\* the hrefs the markup describes, laid out as the returned tree is
RECURSIVE markupHrefs(_, _)
markupHrefs(open, owner) ==
    LET members == orderedBy({ p \in liStarts : ownerOf(open, p) = owner }, closeOrder)
    IN  [ m \in DOMAIN members |->
            [ Href     |-> firstAnchorHref(open, members[m]),
              Children |-> markupHrefs(open, members[m]) ] ]

\* a returned tree reduced to its hrefs
RECURSIVE hrefsOf(_)
hrefsOf(list) ==
    [ m \in DOMAIN list |->
        [ Href |-> list[m].Href, Children |-> hrefsOf(list[m].Children) ] ]

\* C16: every returned item has the href of the first anchor of its list
\* item, whatever the later anchors of that item hold, and the empty href
\* when that first anchor has no href attribute or an empty one.
C16_HrefOfTheFirstAnchor ==
    (pc = "nav" /\ navRet = "ok") =>
        hrefsOf(items) = markupHrefs(openElements(Len(doc)), 0)

(***************************************************************************)
MaxHrefLen == 4      \* most characters of an href

\* strings.Contains
Contains(str, sub) ==
    \E k \in 1..(Len(str) - Len(sub) + 1) : SubSeq(str, k, k + Len(sub) - 1) = sub

\* strings.Index for a one-character separator, 1-based; 0 if absent
IndexOf(str, c) ==
    IF \E k \in DOMAIN str : str[k] = c
    THEN CHOOSE k \in DOMAIN str : str[k] = c /\ \A j \in 1..(k - 1) : str[j] # c
    ELSE 0

\* strings.SplitN(str, sep, 2)
SplitN2(str, sep) ==
    IF IndexOf(str, sep) = 0 THEN <<str>>
    ELSE <<SubSeq(str, 1, IndexOf(str, sep) - 1),
           SubSeq(str, IndexOf(str, sep) + 1, Len(str))>>

SchemeSep == <<":", "/", "/">>

\* a joinHref that loses the fragment
joinHref_DropsFragment(prefix, href) ==
    LET h == TrimSpace(href)
    IN  IF h = <<>> THEN <<>>
        ELSE IF HasPrefix(h, <<"#">>) \/ Contains(h, SchemeSep) THEN h
        ELSE normalizeEPUBPath(PathJoin(prefix, SplitN2(h, "#")[1]))

\* lines 169-187
joinHref(prefix, href) ==
    LET h     == TrimSpace(href)
        parts == SplitN2(h, "#")
        base  == parts[1]
    IN  IF h = <<>> THEN <<>>
        ELSE IF HasPrefix(h, <<"#">>) \/ Contains(h, SchemeSep) THEN h
        ELSE IF base = <<>> /\ Len(parts) = 2 THEN <<"#">> \o parts[2]
        ELSE LET joined == normalizeEPUBPath(PathJoin(prefix, base))
             IN  IF Len(parts) = 2 THEN joined \o <<"#">> \o parts[2] ELSE joined

HrefChars == {"a", "#", "/", ".", ":", " "}

Hrefs == UNION {[1..n -> HrefChars] : n \in 0..MaxHrefLen}

\* the prefix of a volume, and none
Prefixes == { <<"V", "/", "v">>, <<>> }

InitJoinHref ==
    /\ callArgs \in {[prefix |-> p, href |-> h] : p \in Prefixes, h \in Hrefs}
    /\ callRet = <<>>
    /\ sources = <<>> /\ opts = PlainOpts /\ volumes = <<>> /\ pc = "joinHref"
    /\ MergeFresh /\ UnzipIdle /\ NavIdle

JoinHrefCall ==
    /\ pc = "joinHref"
    /\ callRet' = joinHref(callArgs.prefix, callArgs.href)
    /\ pc' = "joinHref_ret"
    /\ UNCHANGED <<sources, opts, ctxDone, i, volumes, dirs, manifest, spine, idHref,
                   coverItemID, stage, pkg, outFile, err, callArgs>>
    /\ UNCHANGED <<unzipVars, navVars>>

NextJoinHref == JoinHrefCall

SpecJoinHref == InitJoinHref /\ [][NextJoinHref]_vars

\* what the href has before its first `#`, and the rest from that `#` on
pathPart(h)     == IF IndexOf(h, "#") = 0 THEN h ELSE SubSeq(h, 1, IndexOf(h, "#") - 1)
fragmentPart(h) == IF IndexOf(h, "#") = 0 THEN <<>> ELSE SubSeq(h, IndexOf(h, "#"), Len(h))

\* the result the claim gives to the href h under the prefix
claimedHref(prefix, h) ==
    IF (h # <<>> /\ Head(h) = "#") \/ Contains(h, SchemeSep) THEN h
    ELSE normalizeEPUBPath(PathJoin(prefix, pathPart(h))) \o fragmentPart(h)

\* C13 as stated: joinHref returns a fragment-only or absolute href unchanged,
\* and otherwise the normalized join of the prefix with the path part of the
\* href, followed by the href's #fragment if it has one.
C13_JoinHrefOfTheHrefAsGiven ==
    pc = "joinHref_ret" => callRet = claimedHref(callArgs.prefix, callArgs.href)

\* C13, amended: the same of the href with the white space around it removed,
\* and the empty result for an href that is empty or blank.
C13_JoinHrefOfTheTrimmedHref ==
    pc = "joinHref_ret" =>
        LET h == TrimSpace(callArgs.href)
        IN  IF h = <<>> THEN callRet = <<>>
            ELSE callRet = claimedHref(callArgs.prefix, h)

\* an href with white space before it, a path and a fragment, joined under
\* the volume prefix
C13_Witness ==
    /\ pc = "joinHref_ret"
    /\ callArgs.prefix # <<>>
    /\ callArgs.href = <<" ", "a", "#", "a">>
    /\ callRet = <<"V", "/", "v", "/", "a", "#", "a">>

(***************************************************************************)
(* RewriteEPUB (spec section 4.6; its code is not among the sources, only  *)
(* its tests are, src/unnamed/part_001), run on its own: SpecRewrite       *)
(*                                                                         *)
(* An archive is its content files and the title of its package document.  *)
(* A content file is one element with its text.  callArgs holds the        *)
(* archive as it was first, the rules and the scope; callRet the runs made *)
(* so far, each in place (OutPath = the input, as in the tests).           *)
(***************************************************************************)
MaxFiles == 2       \* most content files of an archive
MaxRules == 1       \* most rules of a run
MaxRuns  == 2       \* most runs of RewriteEPUB on the archive

\* strings.Count of a non-empty substring: leftmost, not overlapping
RECURSIVE CountOf(_, _)
CountOf(str, find) ==
    IF Len(str) < Len(find) THEN 0
    ELSE IF HasPrefix(str, find)
         THEN 1 + CountOf(SubSeq(str, Len(find) + 1, Len(str)), find)
    ELSE CountOf(Tail(str), find)

\* strings.ReplaceAll for a non-empty substring
RECURSIVE ReplaceAll(_, _, _)
ReplaceAll(str, find, repl) ==
    IF Len(str) < Len(find) THEN str
    ELSE IF HasPrefix(str, find)
         THEN repl \o ReplaceAll(SubSeq(str, Len(find) + 1, Len(str)), find, repl)
    ELSE <<Head(str)>> \o ReplaceAll(Tail(str), find, repl)

\* one rule on one text: st = [text, matches]
applyRule(rule, st) ==
    [text    |-> ReplaceAll(st.text, rule.Find, rule.Replace),
     matches |-> st.matches + CountOf(st.text, rule.Find)]

\* body scope: the rules that reach an element
ruleApplies(rule, sel) ==
    rule.Selectors = <<>> \/ \E k \in DOMAIN rule.Selectors : rule.Selectors[k] = sel

\* the rules in order on the text of one content file
RECURSIVE rewriteText(_, _, _)
rewriteText(rules, sel, st) ==
    IF rules = <<>> THEN st
    ELSE rewriteText(Tail(rules), sel,
                     IF ruleApplies(Head(rules), sel) THEN applyRule(Head(rules), st)
                     ELSE st)

\* meta scope: rules that carry selectors are skipped
RECURSIVE rewriteMeta(_, _)
rewriteMeta(rules, st) ==
    IF rules = <<>> THEN st
    ELSE rewriteMeta(Tail(rules),
                     IF Head(rules).Selectors = <<>> THEN applyRule(Head(rules), st)
                     ELSE st)

\* body scope walks the content files that are XHTML and not the nav
walksFile(f) == f.Kind = "xhtml"

\* the projected archive and the statistics of a run
rewriteProjection(archive, rules, scope) ==
    IF scope = "body"
    THEN LET per == [k \in DOMAIN archive.Files |->
                       IF walksFile(archive.Files[k])
                       THEN rewriteText(rules, archive.Files[k].Sel,
                                        [text |-> archive.Files[k].Text, matches |-> 0])
                       ELSE [text |-> archive.Files[k].Text, matches |-> 0]]
             RECURSIVE sum(_)
             sum(k) == IF k = 0 THEN 0 ELSE per[k].matches + sum(k - 1)
         IN  [archive |-> [archive EXCEPT
                             !.Files = [k \in DOMAIN archive.Files |->
                                          [archive.Files[k] EXCEPT !.Text = per[k].text]]],
              MatchCount   |-> sum(Len(archive.Files)),
              FilesChanged |-> Cardinality({k \in DOMAIN archive.Files :
                                               per[k].text # archive.Files[k].Text})]
    ELSE LET m == rewriteMeta(rules, [text |-> archive.Title, matches |-> 0])
         IN  [archive      |-> [archive EXCEPT !.Title = m.text],
              MatchCount   |-> m.matches,
              FilesChanged |-> IF m.text # archive.Title THEN 1 ELSE 0]

\* a dry run that does not count the files it would change
rewriteResult_DryNoFilesChanged(archive, rules, scope, dryRun) ==
    LET proj == rewriteProjection(archive, rules, scope)
    IN  [DryRun       |-> dryRun,
         before       |-> archive,
         after        |-> IF dryRun THEN archive ELSE proj.archive,
         MatchCount   |-> proj.MatchCount,
         FilesChanged |-> IF dryRun THEN 0 ELSE proj.FilesChanged]

\* a run: the statistics are those of the projection; the archive is written
\* only when the run is not a dry run
rewriteResult(archive, rules, scope, dryRun) ==
    LET proj == rewriteProjection(archive, rules, scope)
    IN  [DryRun       |-> dryRun,
         before       |-> archive,
         after        |-> IF dryRun THEN archive ELSE proj.archive,
         MatchCount   |-> proj.MatchCount,
         FilesChanged |-> proj.FilesChanged]

ContentFiles ==
    { [Kind |-> kind, Sel |-> sel, Text |-> text] :
        kind \in {"xhtml", "nav"},
        sel  \in {"p.note", "p"},
        text \in {<<"a">>, <<"b", "a", "a">>} }

RewriteArchives ==
    { [Files |-> fs, Title |-> <<"a">>] :
        fs \in UNION {[1..n -> ContentFiles] : n \in 1..MaxFiles} }

RewriteRules ==
    { [Find |-> <<"a">>, Replace |-> r, Selectors |-> sels] :
        r \in {<<"b">>, <<"a", "a">>}, sels \in {<<>>, <<"p.note">>} }

RuleLists == UNION {[1..n -> RewriteRules] : n \in 1..MaxRules}

InitRewrite ==
    /\ callArgs \in {[archive |-> a, rules |-> rs, scope |-> sc] :
                       a \in RewriteArchives, rs \in RuleLists, sc \in {"body", "meta"}}
    /\ callRet = <<>>
    /\ sources = <<>> /\ opts = PlainOpts /\ volumes = <<>> /\ pc = "rewrite"
    /\ MergeFresh /\ UnzipIdle /\ NavIdle

\* the archive as the runs so far have left it
archiveNow == IF callRet = <<>> THEN callArgs.archive ELSE callRet[Len(callRet)].after

RewriteEPUBCall ==
    /\ pc = "rewrite"
    /\ Len(callRet) < MaxRuns
    /\ \E dryRun \in BOOLEAN :
         callRet' = Append(callRet,
                           rewriteResult(archiveNow, callArgs.rules, callArgs.scope, dryRun))
    /\ UNCHANGED callArgs
    /\ UNCHANGED <<mergeVars, unzipVars, navVars>>

NextRewrite == RewriteEPUBCall

SpecRewrite == InitRewrite /\ [][NextRewrite]_vars

MaxIDLen == 2      \* most characters of an original id

\* letters, digits and the underscore
IDChars == {"a", "0", "_"}

OriginalIDs == UNION {[1..n -> IDChars] : n \in 0..MaxIDLen}

\* zero-based volume indexes whose number takes one to six digits
VolumeIndexes == {0, 9, 99, 999, 9998, 9999, 10000, 99999}

IDPairs == {[idx |-> x, id |-> d] : x \in VolumeIndexes, d \in OriginalIDs}

InitPrefixedID ==
    /\ callArgs \in {<<p, q>> : p \in IDPairs, q \in IDPairs}
    /\ callRet = <<>>
    /\ sources = <<>> /\ opts = PlainOpts /\ volumes = <<>> /\ pc = "prefixedID"
    /\ MergeFresh /\ UnzipIdle /\ NavIdle

PrefixedIDCall ==
    /\ pc = "prefixedID"
    /\ callRet' = <<prefixedID(callArgs[1].idx, callArgs[1].id),
                    prefixedID(callArgs[2].idx, callArgs[2].id)>>
    /\ pc' = "prefixedID_ret"
    /\ UNCHANGED <<sources, opts, ctxDone, i, volumes, dirs, manifest, spine, idHref,
                   coverItemID, stage, pkg, outFile, err, callArgs>>
    /\ UNCHANGED <<unzipVars, navVars>>

NextPrefixedID == PrefixedIDCall

SpecPrefixedID == InitPrefixedID /\ [][NextPrefixedID]_vars

\* C18: two distinct (volume index, original id) pairs never get the same
\* merged id, whatever the number of digits of the index and whatever digits
\* and underscores the id holds, and no merged id is the reserved id `nav`.
C18_RemappingInjectiveAndNeverNav ==
    pc = "prefixedID_ret" =>
        /\ callRet[1] = callRet[2] => callArgs[1] = callArgs[2]
        /\ callRet[1] # NavProp /\ callRet[2] # NavProp

\* the ten-thousandth volume and the thousandth, with ids of digits and
\* underscores that make the merged ids differ only around the separator
C18_Witness ==
    /\ pc = "prefixedID_ret"
    /\ callArgs[1] = [idx |-> 9999, id |-> <<"_", "0">>]
    /\ callArgs[2] = [idx |-> 999, id |-> <<"0", "_">>]
    /\ callRet[1] = <<"v", "1", "0", "0", "0", "0", "_", "_", "0">>
    /\ callRet[2] = <<"v", "1", "0", "0", "0", "_", "0", "_">>

====
